---------------------------- MODULE Spec2Model ----------------------------
(***************************************************************************)
(* A model of the go-fiber tutorial repository: the shared test `app` of   *)
(* fiber_test.go with the routes its Test* functions register, and the     *)
(* preforked server of main.go with its /api middleware.                   *)
(*                                                                         *)
(* Paths are sequences of segments ("/users/eko" is <<"users","eko">>),    *)
(* bodies and parameter values are strings, encoded request bodies are     *)
(* sequences of tokens.  The framework calls the repository makes          *)
(* (app.Get, c.Query, c.Next, app.Test, ...) are modelled by what the      *)
(* fiber v2 router does for them.                                          *)
(***************************************************************************)
EXTENDS Integers, Sequences, FiniteSets, TLC

VARIABLES
    stack,      \* app's route stack, one sequence of routes per HTTP method
    fs,         \* the file system below the working directory
    req,        \* the request last given to app.Test
    resp,       \* the response app.Test returned for it
    runs,       \* how many Test* functions have run on the shared app
    input,      \* the generated request a specification of one route sends,
                \* with the data it was generated from
    procs,      \* main.go: the state of every OS process of the server
    stdout,     \* main.go: the lines printed, with the printing process
    served      \* main.go: how many requests the server has answered

vars == <<stack, fs, req, resp, runs, input, procs, stdout, served>>

testVars == <<stack, fs, req, resp, runs, input>>
serverVars == <<procs, stdout, served>>

-----------------------------------------------------------------------------
(* Bounds *)

MaxRuns == 2        \* Test* functions run on the shared app
MaxRepeat == 3      \* runs of the Test* functions of one route
MaxLen == 2         \* characters of a generated field value
MaxQuery == 2       \* parameters of a generated query string
NumChildren == 2    \* child processes the prefork parent starts
MaxServed == 2      \* requests the server processes answer
MaxSuite == 2       \* Test* functions of the whole suite run on the shared app

-----------------------------------------------------------------------------
(* Values *)

Methods == {"GET", "HEAD", "POST"}

NoFile == [present |-> FALSE, name |-> "", content |-> ""]
FormFile(name, content) == [present |-> TRUE, name |-> name, content |-> content]

\* error values: nil, errors.New(msg) (code 0), fiber.NewError(code, msg)
Nil == [isErr |-> FALSE, code |-> 0, msg |-> ""]
Err(code, msg) == [isErr |-> TRUE, code |-> code, msg |-> msg]

StatusOK == 200
StatusInternalServerError == 500

contohFile == "this is sample text file for upload"

\* httptest.NewRequest(method, target, body) plus the header the tests set
Request(method, path) ==
    [method |-> method, path |-> path, query |-> <<>>, ctype |-> "",
     body |-> <<>>, file |-> NoFile, headers |-> <<>>, cookies |-> <<>>]

NoRequest == Request("", <<>>)

\* a generated request; valid when it encodes the data as a client does
Input(rq) == [rq |-> rq, valid |-> FALSE, data |-> <<>>]
Encoded(rq, data) == [rq |-> rq, valid |-> TRUE, data |-> data]

\* a fresh fiber.Ctx response: status 200, empty body, no handler run yet
NewCtx(files) ==
    [status |-> StatusOK, body |-> "", disposition |-> "", log |-> <<>>,
     stdout |-> <<>>, indexRoute |-> 0, indexHandler |-> 0, matched |-> FALSE,
     fs |-> files]

NoResponse ==
    [status |-> 0, body |-> "", disposition |-> "", log |-> <<>>, err |-> Nil,
     indexRoute |-> 0, indexHandler |-> 0]

-----------------------------------------------------------------------------
(* Strings and paths *)

RECURSIVE Str(_)
\* the string made of a sequence of characters or tokens
Str(s) == IF s = <<>> THEN "" ELSE Head(s) \o Str(Tail(s))

RECURSIVE PathStr(_)
\* the request target of a path: "/" followed by the segments joined by "/"
PathStr(p) ==
    IF p = <<>> THEN "/"
    ELSE IF Len(p) = 1 THEN "/" \o p[1]
    ELSE "/" \o p[1] \o PathStr(Tail(p))

IsParam(seg) == Len(seg) > 0 /\ SubSeq(seg, 1, 1) = ":"
ParamName(seg) == SubSeq(seg, 2, Len(seg))

Min(S) == CHOOSE x \in S : \A y \in S : x <= y

-----------------------------------------------------------------------------
(* Routes and matching *)

\* a route of the stack: its pattern, whether it is a prefix (Use/Static)
\* route, and its handlers in registration order
Route(path, use, handlers) == [path |-> path, use |-> use, handlers |-> handlers]

\* a pattern segment matches the path segment it stands for
SegMatch(pat, seg) == IF IsParam(pat) THEN seg # "" ELSE pat = seg

\* a match that takes the pattern of every route for a prefix
RouteMatchPrefix(route, path) ==
    /\ Len(path) >= Len(route.path)
    /\ \A i \in 1..Len(route.path) : SegMatch(route.path[i], path[i])

\* route.match: a Use route matches every path below its prefix, any other
\* route the paths with exactly its segments
RouteMatch(route, path) ==
    /\ IF route.use THEN Len(path) >= Len(route.path)
                    ELSE Len(path) = Len(route.path)
    /\ \A i \in 1..Len(route.path) : SegMatch(route.path[i], path[i])

\* Params that reads the first parameter of the route whatever the key
ParamsFirst(route, path, key) ==
    LET at == {i \in 1..Len(route.path) : IsParam(route.path[i])}
    IN IF at = {} THEN "" ELSE path[Min(at)]

\* c.Params(key): the path segment at the position of ":key" in the pattern
\* of the matched route, "" when the route has no such parameter
Params(route, path, key) ==
    LET at == {i \in 1..Len(route.path) :
                  IsParam(route.path[i]) /\ ParamName(route.path[i]) = key}
    IN IF at = {} THEN "" ELSE path[Min(at)]

\* app.methodExist: some other method has a non-Use route for the path
methodExist(app, rq) ==
    \E m \in Methods \ {rq.method} :
        \E i \in 1..Len(app[m]) :
            ~app[m][i].use /\ RouteMatch(app[m][i], rq.path)

ErrMethodNotAllowed == Err(405, "Method Not Allowed")
ErrUnprocessableEntity == Err(422, "Unprocessable Entity")
ErrNotFound(rq) ==
    Err(404, "Cannot " \o rq.method \o " " \o PathStr(rq.path))

\* addRoute: a route whose path and kind equal those of the last route of
\* the method's stack adds its handlers to that route, any other route is
\* appended to the stack
addRoute(app, method, route) ==
    LET tree == app[method]
        l == Len(tree)
    IN IF l > 0 /\ tree[l].path = route.path /\ tree[l].use = route.use
       THEN [app EXCEPT ![method] =
                [tree EXCEPT ![l].handlers = tree[l].handlers \o route.handlers]]
       ELSE [app EXCEPT ![method] = Append(tree, route)]

\* app.Get(path, handler): the route answers GET and HEAD
Get(app, path, handler) ==
    addRoute(addRoute(app, "HEAD", Route(path, FALSE, <<handler>>)),
             "GET", Route(path, FALSE, <<handler>>))

\* app.Post(path, handler)
Post(app, path, handler) == addRoute(app, "POST", Route(path, FALSE, <<handler>>))

RECURSIVE Use(_, _, _, _)
\* app.Use(prefix, handler): a prefix route on the stack of every method
Use(app, methods, prefix, handler) ==
    IF methods = {} THEN app
    ELSE LET m == CHOOSE x \in methods : TRUE
         IN Use(addRoute(app, m, Route(prefix, TRUE, <<handler>>)),
                methods \ {m}, prefix, handler)

\* app.Static(prefix, root): a prefix route for GET and HEAD
Static(app, prefix) ==
    addRoute(addRoute(app, "GET", Route(prefix, TRUE, <<"static">>)),
             "HEAD", Route(prefix, TRUE, <<"static">>))

\* a group that registers its routes without its prefix
GroupGetNoPrefix(app, prefix, path, handler) == Get(app, path, handler)

\* app.Group(prefix).Get(path, handler): the route of prefix + path
GroupGet(app, prefix, path, handler) == Get(app, prefix \o path, handler)

-----------------------------------------------------------------------------
(* Request data: query strings, url-encoded forms, JSON *)

MIMEApplicationJSON == "application/json"
MIMEApplicationForm == "application/x-www-form-urlencoded"
MIMEMultipartForm == "multipart/form-data"

\* Query without the default: the value of the first parameter named key
QueryNoDefault(rq, key, defaultValue) ==
    LET at == {i \in 1..Len(rq.query) : rq.query[i][1] = key}
    IN IF at = {} THEN "" ELSE rq.query[Min(at)][2]

\* c.Query(key, defaultValue): the value of the first parameter named key,
\* the default when there is none or when its value is empty
Query(rq, key, defaultValue) ==
    LET at == {i \in 1..Len(rq.query) : rq.query[i][1] = key}
        value == IF at = {} THEN "" ELSE rq.query[Min(at)][2]
    IN IF value = "" THEN defaultValue ELSE value

\* the token a client writes for one character of a form value
FormEscape(ch) ==
    CASE ch = " " -> "+"
      [] ch = "&" -> "%26"
      [] ch = "=" -> "%3D"
      [] ch = "+" -> "%2B"
      [] ch = "%" -> "%25"
      [] ch = "\"" -> "%22"
      [] ch = "\\" -> "%5C"
      [] OTHER -> ch

\* the form decoder without the rule that "+" stands for a space
FormUnescapeNoPlus(tok) ==
    CASE tok = "%26" -> "&"
      [] tok = "%3D" -> "="
      [] tok = "%2B" -> "+"
      [] tok = "%25" -> "%"
      [] tok = "%22" -> "\""
      [] tok = "%5C" -> "\\"
      [] OTHER -> tok

\* the character the form decoder reads from one token of a form value
FormUnescape(tok) ==
    CASE tok = "+" -> " "
      [] tok = "%26" -> "&"
      [] tok = "%3D" -> "="
      [] tok = "%2B" -> "+"
      [] tok = "%25" -> "%"
      [] tok = "%22" -> "\""
      [] tok = "%5C" -> "\\"
      [] OTHER -> tok

\* the token a client writes for one character of a JSON string
JsonEscape(ch) ==
    CASE ch = "\"" -> "\\\""
      [] ch = "\\" -> "\\\\"
      [] OTHER -> ch

\* the character the JSON decoder reads from one token of a JSON string
JsonUnescape(tok) ==
    CASE tok = "\\\"" -> "\""
      [] tok = "\\\\" -> "\\"
      [] OTHER -> tok

\* a value as the client writes it, and a run of tokens as the decoder reads it
FormEscaped(s) == [i \in 1..Len(s) |-> FormEscape(s[i])]
FormUnescaped(s) == [i \in 1..Len(s) |-> FormUnescape(s[i])]
JsonEscaped(s) == [i \in 1..Len(s) |-> JsonEscape(s[i])]
JsonUnescaped(s) == [i \in 1..Len(s) |-> JsonUnescape(s[i])]

RECURSIVE SplitOn(_, _)
\* the pieces of a token sequence between the separator tokens
SplitOn(toks, sep) ==
    LET at == {i \in 1..Len(toks) : toks[i] = sep}
    IN IF at = {} THEN <<toks>>
       ELSE <<SubSeq(toks, 1, Min(at) - 1)>>
                \o SplitOn(SubSeq(toks, Min(at) + 1, Len(toks)), sep)

\* one "key=value" piece of a form body as <<key, value>>, decoded
FormPair(piece) ==
    LET at == {i \in 1..Len(piece) : piece[i] = "="}
        k == IF at = {} THEN piece ELSE SubSeq(piece, 1, Min(at) - 1)
        v == IF at = {} THEN <<>> ELSE SubSeq(piece, Min(at) + 1, Len(piece))
    IN <<Str(FormUnescaped(k)), Str(FormUnescaped(v))>>

\* the arguments of a url-encoded body, in order; empty pieces are skipped
PostArgs(body) ==
    LET pieces == SelectSeq(SplitOn(body, "&"), LAMBDA x : x # <<>>)
    IN [i \in 1..Len(pieces) |-> FormPair(pieces[i])]

\* the value decoded into a string field: the last one given for the key
FieldOf(args, key) ==
    LET at == {i \in 1..Len(args) : args[i][1] = key}
    IN IF at = {} THEN "" ELSE args[CHOOSE i \in at : \A j \in at : j <= i][2]

\* a JSON string starting at token i: its value and the position after it
ReadString(t, i) ==
    LET close == {j \in (i + 1)..Len(t) : t[j] = "\""}
    IN IF i > Len(t) \/ t[i] # "\"" \/ close = {}
       THEN [ok |-> FALSE, val |-> "", next |-> i]
       ELSE [ok |-> TRUE,
             val |-> Str(JsonUnescaped(SubSeq(t, i + 1, Min(close) - 1))),
             next |-> Min(close) + 1]

SyntaxError == [ok |-> FALSE, args |-> <<>>]

RECURSIVE JsonMembers(_, _, _), JsonValue(_, _, _), JsonRest(_, _, _, _)
\* the members of a JSON object of strings from token i on, up to its "}"
JsonMembers(t, i, acc) == JsonValue(t, ReadString(t, i), acc)

\* after the member's key k: a ":" and the member's value
JsonValue(t, k, acc) ==
    IF ~k.ok \/ k.next > Len(t) \/ t[k.next] # ":" THEN SyntaxError
    ELSE JsonRest(t, k, ReadString(t, k.next + 1), acc)

\* after the member's value v: a "," and more members, or the closing "}"
JsonRest(t, k, v, acc) ==
    IF ~v.ok \/ v.next > Len(t) THEN SyntaxError
    ELSE IF t[v.next] = ","
    THEN JsonMembers(t, v.next + 1, Append(acc, <<k.val, v.val>>))
    ELSE IF t[v.next] = "}" /\ v.next = Len(t)
    THEN [ok |-> TRUE, args |-> Append(acc, <<k.val, v.val>>)]
    ELSE SyntaxError

ErrJSONSyntax == Err(0, "unexpected end of JSON input")

\* json.Unmarshal of an object of string members
Unmarshal(body) ==
    IF Len(body) >= 2 /\ body[1] = "{"
    THEN IF body = <<"{", "}">> THEN [ok |-> TRUE, args |-> <<>>]
         ELSE JsonMembers(body, 2, <<>>)
    ELSE SyntaxError

\* the struct RegisterReq filled from decoded members or arguments
RegisterReq(args) ==
    [Username |-> FieldOf(args, "username"),
     Password |-> FieldOf(args, "password"),
     Name |-> FieldOf(args, "name")]

\* the struct and the error json.Unmarshal leaves
Unmarshalled(got) ==
    IF got.ok THEN [err |-> Nil, out |-> RegisterReq(got.args)]
    ELSE [err |-> ErrJSONSyntax, out |-> RegisterReq(<<>>)]

\* c.BodyParser(req): decodes by Content-Type
BodyParser(rq) ==
    IF rq.ctype = MIMEApplicationJSON THEN Unmarshalled(Unmarshal(rq.body))
    ELSE IF rq.ctype = MIMEApplicationForm
    THEN [err |-> Nil, out |-> RegisterReq(PostArgs(rq.body))]
    ELSE [err |-> ErrUnprocessableEntity, out |-> RegisterReq(<<>>)]

\* the body strings.NewReader gets in TestBodyParserJSON, for given fields
JsonBody(u, p, n) ==
    <<"{", "\"", "username", "\"", ":", "\"">> \o JsonEscaped(u)
        \o <<"\"", ",", "\"", "password", "\"", ":", "\"">> \o JsonEscaped(p)
        \o <<"\"", ",", "\"", "name", "\"", ":", "\"">> \o JsonEscaped(n)
        \o <<"\"", "}">>

\* the body strings.NewReader gets in TestBodyParserForm, for given fields
FormBody(u, p, n) ==
    <<"username", "=">> \o FormEscaped(u)
        \o <<"&", "password", "=">> \o FormEscaped(p)
        \o <<"&", "name", "=">> \o FormEscaped(n)

-----------------------------------------------------------------------------
(* Handlers.  A handler takes the app, the request and the context, and   *)
(* returns the context it leaves with the error it returns.               *)

Return(c, err) == [c |-> c, err |-> err]

\* every handler logs its run in the context
Enter(c, name) == [c EXCEPT !.log = Append(c.log, name)]

\* c.SendString(body): sets the response body, returns nil
SendString(c, body) == Return([c EXCEPT !.body = body], Nil)

\* c.Get(key): the first header of the request with the key, "" without one
Header(rq, key) ==
    LET at == {i \in 1..Len(rq.headers) : rq.headers[i][1] = key}
    IN IF at = {} THEN "" ELSE rq.headers[Min(at)][2]

\* c.Cookies(key): the first cookie of the request with the key
Cookies(rq, key) ==
    LET at == {i \in 1..Len(rq.cookies) : rq.cookies[i][1] = key}
    IN IF at = {} THEN "" ELSE rq.cookies[Min(at)][2]

\* the times an If-Modified-Since header can name, seen from the file served:
\* before it was last written, or not
BeforeWritten == "before the file was written"
SinceWritten == "since the file was written"

\* ctx.IfModifiedSince(lastModified): the file is newer than the time of the
\* header, or the request has no such header
IfModifiedSince(rq) == Header(rq, "If-Modified-Since") # SinceWritten

Digits == {"0", "1", "2", "3", "4", "5", "6", "7", "8", "9"}
Digit(ch) == CHOOSE d \in 0..9 : ToString(d) = ch

\* a Range header of the form bytes=a-b with one digit each
IsByteRange(v) ==
    /\ Len(v) = 9
    /\ SubSeq(v, 1, 6) = "bytes="
    /\ SubSeq(v, 7, 7) \in Digits
    /\ SubSeq(v, 8, 8) = "-"
    /\ SubSeq(v, 9, 9) \in Digits

\* fasthttp.ParseByteRange: the first and last position of the range in a
\* content of the given length, or an error
ParseByteRange(v, contentLength) ==
    IF ~IsByteRange(v) THEN [ok |-> FALSE, startPos |-> 0, endPos |-> 0]
    ELSE LET startPos == Digit(SubSeq(v, 7, 7))
             endPos == Digit(SubSeq(v, 9, 9))
         IN [ok |-> startPos < contentLength /\ startPos <= endPos,
             startPos |-> startPos,
             endPos |-> IF endPos >= contentLength THEN contentLength - 1 ELSE endPos]

\* the part of the file a Range header asks for, or the refusal of the range
Ranged(c, content, range) ==
    IF range.ok
    THEN [c EXCEPT !.status = 206,
                   !.body = SubSeq(content, range.startPos + 1, range.endPos + 1)]
    ELSE [c EXCEPT !.status = 416, !.body = "Range Not Satisfiable",
                   !.disposition = ""]

\* the file handler of fasthttp for a file that exists: not modified, a byte
\* range where the handler accepts ranges, or the whole content
ServeFile(c, rq, content, acceptByteRange) ==
    IF ~IfModifiedSince(rq)
    THEN [c EXCEPT !.status = 304, !.body = "", !.disposition = ""]
    ELSE IF acceptByteRange /\ Header(rq, "Range") # ""
    THEN Ranged(c, content, ParseByteRange(Header(rq, "Range"), Len(content)))
    ELSE [c EXCEPT !.body = content]

\* c.SendFile(file): the file served as the response, an error without file
SendFile(c, rq, file) ==
    IF file \in DOMAIN c.fs.files
    THEN Return(ServeFile(c, rq, c.fs.files[file], TRUE), Nil)
    ELSE Return(c, Err(404, "sendfile: file " \o file \o " not found"))

\* Download that sends the file without the Content-Disposition header
DownloadNoHeader(c, rq, file, filename) == SendFile(c, rq, file)

\* c.Download(file, filename): Content-Disposition, then SendFile
Download(c, rq, file, filename) ==
    SendFile([c EXCEPT !.disposition = "attachment; filename=\"" \o filename \o "\""],
             rq, file)

ErrMissingFile == Err(0, "there is no uploaded file associated with the given key")
ErrNoMultipartForm == Err(0, "request has no multipart/form-data Content-Type")

\* c.FormFile("file"): the uploaded file of the multipart form
CtxFormFile(rq) ==
    IF rq.ctype # MIMEMultipartForm THEN [err |-> ErrNoMultipartForm, file |-> NoFile]
    ELSE IF ~rq.file.present THEN [err |-> ErrMissingFile, file |-> NoFile]
    ELSE [err |-> Nil, file |-> rq.file]

\* c.SaveFile(file, path): creates the file in an existing directory
SaveFile(c, file, dir, path) ==
    IF dir \in c.fs.dirs
    THEN Return([c EXCEPT !.fs.files = (path :> file.content) @@ c.fs.files], Nil)
    ELSE Return(c, Err(0, "open " \o path \o ": no such file or directory"))

\* the first value given for the key among arguments, "" without one
Peek(args, key) ==
    LET at == {i \in 1..Len(args) : args[i][1] = key}
    IN IF at = {} THEN "" ELSE args[Min(at)][2]

\* c.FormValue(key): the value of the query string, or else of the
\* url-encoded body
FormValue(rq, key) ==
    IF Peek(rq.query, key) # "" THEN Peek(rq.query, key)
    ELSE IF rq.ctype = MIMEApplicationForm THEN Peek(PostArgs(rq.body), key)
    ELSE ""

\* the struct LoginReq filled from decoded members
LoginReq(args) ==
    [Username |-> FieldOf(args, "username"), Password |-> FieldOf(args, "password")]

\* the keys of the maps the handlers marshal, in the order json.Marshal
\* writes the keys of a map: sorted
SortedKeys == <<"content", "header", "name", "title", "username">>

\* json.Marshal of a map of strings: its members in the order of their keys
Marshal(m) ==
    LET keys == SelectSeq(SortedKeys, LAMBDA k : k \in DOMAIN m)
        Member(i) == "\"" \o keys[i] \o "\":\"" \o Str(JsonEscaped(m[keys[i]])) \o "\""
                        \o (IF i < Len(keys) THEN "," ELSE "")
    IN "{" \o Str([i \in 1..Len(keys) |-> Member(i)]) \o "}"

\* c.JSON(data): the marshalled data as the body
JSON(c, data) == SendString(c, Marshal(data))

\* the template ./template/index.mustache shows the three values it is given
IndexTemplate == <<"{{title}}", " ", "{{header}}", " ", "{{content}}">>

\* a piece of a mustache template: a variable is replaced by its value
Rendered(piece, bind) ==
    IF Len(piece) > 4 /\ SubSeq(piece, 1, 2) = "{{"
    THEN LET key == SubSeq(piece, 3, Len(piece) - 2)
         IN IF key \in DOMAIN bind THEN Str(bind[key]) ELSE ""
    ELSE piece

\* c.Render(name, bind): the template of the engine's directory rendered as
\* the body, an error when the engine has no such template
Render(c, name, bind) ==
    IF ("./template/" \o name \o ".mustache") \in DOMAIN c.fs.files
    THEN SendString(c, Str([i \in 1..Len(IndexTemplate) |->
                                Rendered(IndexTemplate[i], bind)]))
    ELSE Return(c, Err(0, "render: template " \o name \o " does not exist"))

\* TestHttpRequest: GET /req
ReqHandler(rq, c) ==
    LET first == Header(rq, "firstname")
        last == Cookies(rq, "lastname")
    IN SendString(Enter(c, "req"), "Hello " \o first \o " " \o last)

\* TestFormReq: POST /hi
HiHandler(rq, c) ==
    LET name == FormValue(rq, "name")
    IN SendString(Enter(c, "hi"), "Hi " \o name)

\* POST /login, after json.Unmarshal
LoginParsed(got, c) ==
    IF ~got.ok THEN Return(c, ErrJSONSyntax)
    ELSE SendString(c, "Hi " \o LoginReq(got.args).Username)

\* TestRequestBody: POST /login
LoginHandler(rq, c) == LoginParsed(Unmarshal(rq.body), Enter(c, "login"))

EkoKhan == <<"E", "k", "o", " ", "K", "h", "a", "n">>
khan == <<"k", "h", "a", "n">>

\* TestResponseJSON: GET /user
UserHandler(c) ==
    JSON(Enter(c, "user"), [username |-> khan, name |-> EkoKhan])

\* TestView: GET /view
ViewHandler(c) ==
    Render(Enter(c, "view"), "index",
           [title |-> <<"Hello Title">>, header |-> <<"Hello Header">>,
            content |-> <<"Hello Content">>])

\* TestRouteHelloWorld: GET /
RootHandler(c) == SendString(Enter(c, "root"), "Hello World")

\* TestCtx: GET /hello
HelloHandler(rq, c) ==
    LET name == Query(rq, "name", "Guest")
    IN SendString(Enter(c, "hello"), "Hello " \o name)

\* TestRouteParameter: GET /users/:userId/orders/:orderId
OrderHandler(route, rq, c) ==
    LET userId == Params(route, rq.path, "userId")
        orderId == Params(route, rq.path, "orderId")
    IN SendString(Enter(c, "order"), "Order " \o orderId \o " from " \o userId)

\* the upload handler without the check of SaveFile's error
UploadSavedUnchecked(saved) == SendString(saved.c, "Upload Success")

\* POST /upload, after c.SaveFile
UploadSaved(saved) ==
    IF saved.err.isErr THEN saved ELSE SendString(saved.c, "Upload Success")

\* POST /upload, after c.FormFile
UploadFile(got, c) ==
    IF got.err.isErr THEN Return(c, got.err)
    ELSE UploadSaved(SaveFile(c, got.file, "./target", "./target/" \o got.file.name))

\* TestFormUpload: POST /upload
UploadHandler(rq, c) == UploadFile(CtxFormFile(rq), Enter(c, "upload"))

\* POST /register, after c.BodyParser
RegisterParsed(parsed, c) ==
    IF parsed.err.isErr THEN Return(c, parsed.err)
    ELSE SendString(c, "Register Success " \o parsed.out.Username)

\* TestBodyParser: POST /register
RegisterHandler(rq, c) == RegisterParsed(BodyParser(rq), Enter(c, "register"))

\* TestDownloadFile: GET /download
DownloadHandler(rq, c) ==
    Download(Enter(c, "download"), rq, "./source/contoh.txt", "contoh.txt")

\* TestRouteGroup: helloW
helloW(c) == SendString(Enter(c, "helloW"), "Hello World")

\* TestErrorHandling: GET /err
ErrHandler(c) == Return(Enter(c, "err"), Err(0, "duar"))

\* main.go: GET /api/hello
ApiHelloHandler(c) == SendString(Enter(c, "apiHello"), "Hello World !!!!!")

RECURSIVE next(_, _, _), Next_(_, _, _), Invoke(_, _, _, _)

\* the handler of app.Static(prefix, "./source"): the file below the root
\* named by the rest of the path, or the next route when there is none
StaticHandler(app, rq, c) ==
    LET route == app[rq.method][c.indexRoute]
        rest == SubSeq(rq.path, Len(route.path) + 1, Len(rq.path))
        file == "./source" \o PathStr(rest)
    IN IF rest # <<>> /\ file \in DOMAIN c.fs.files
       THEN Return(ServeFile(Enter(c, "static"), rq, c.fs.files[file], FALSE), Nil)
       ELSE Next_(app, rq, Enter(c, "static"))

\* fmt.Println(line): the line on the process's standard output
Println(c, line) ==
    [c EXCEPT !.stdout = Append(c.stdout, line), !.log = Append(c.log, line)]

\* the middleware returning the error of c.Next() before its second line
AfterNextOnSuccess(down) ==
    IF down.err.isErr THEN down
    ELSE Return(Println(down.c, "This is middleware after processing request"), down.err)

\* the middleware after c.Next() returned
AfterNext(down) ==
    Return(Println(down.c, "This is middleware after processing request"), down.err)

\* main.go: the middleware of app.Use("/api", ...)
ApiMiddleware(app, rq, c) ==
    AfterNext(Next_(app, rq,
        Println(Enter(c, "middleware"), "This is middleware before processing request")))

\* runs the named handler
Invoke(h, app, rq, c) ==
    CASE h = "root" -> RootHandler(c)
      [] h = "hello" -> HelloHandler(rq, c)
      [] h = "order" -> OrderHandler(app[rq.method][c.indexRoute], rq, c)
      [] h = "upload" -> UploadHandler(rq, c)
      [] h = "register" -> RegisterHandler(rq, c)
      [] h = "download" -> DownloadHandler(rq, c)
      [] h = "helloW" -> helloW(c)
      [] h = "err" -> ErrHandler(c)
      [] h = "static" -> StaticHandler(app, rq, c)
      [] h = "middleware" -> ApiMiddleware(app, rq, c)
      [] h = "apiHello" -> ApiHelloHandler(c)
      [] h = "req" -> ReqHandler(rq, c)
      [] h = "hi" -> HiHandler(rq, c)
      [] h = "login" -> LoginHandler(rq, c)
      [] h = "user" -> UserHandler(c)
      [] h = "view" -> ViewHandler(c)

RECURSIVE InvokeAll(_, _, _, _, _)
\* runs the handlers of a route from the k-th on, until one returns an error
InvokeAll(hs, k, app, rq, got) ==
    IF k > Len(hs) \/ got.err.isErr THEN got
    ELSE InvokeAll(hs, k + 1, app, rq,
                   Invoke(hs[k], app, rq, [got.c EXCEPT !.indexHandler = k]))

\* app.next running every handler of the matched route, not only the first
nextAllHandlers(app, rq, c) ==
    LET tree == app[rq.method]
        cand == {i \in (c.indexRoute + 1)..Len(tree) : RouteMatch(tree[i], rq.path)}
    IN IF cand = {}
       THEN Return([c EXCEPT !.indexRoute = Len(tree)],
                   IF ~c.matched /\ methodExist(app, rq)
                   THEN ErrMethodNotAllowed ELSE ErrNotFound(rq))
       ELSE InvokeAll(tree[Min(cand)].handlers, 1, app, rq,
                      Return([c EXCEPT !.indexRoute = Min(cand),
                                       !.matched = c.matched \/ ~tree[Min(cand)].use],
                             Nil))

\* app.next: runs the first handler of the first route after c.indexRoute
\* that matches; without one, the not-found or method-not-allowed error
next(app, rq, c) ==
    LET tree == app[rq.method]
        cand == {i \in (c.indexRoute + 1)..Len(tree) : RouteMatch(tree[i], rq.path)}
    IN IF cand = {}
       THEN Return([c EXCEPT !.indexRoute = Len(tree)],
                   IF ~c.matched /\ methodExist(app, rq)
                   THEN ErrMethodNotAllowed ELSE ErrNotFound(rq))
       ELSE LET i == Min(cand)
            IN Invoke(tree[i].handlers[1], app, rq,
                      [c EXCEPT !.indexRoute = i, !.indexHandler = 1,
                                !.matched = c.matched \/ ~tree[i].use])

\* c.Next(): the next handler of the matched route, or else app.next
Next_(app, rq, c) ==
    LET route == app[rq.method][c.indexRoute]
        h == c.indexHandler + 1
    IN IF h <= Len(route.handlers)
       THEN Invoke(route.handlers[h], app, rq, [c EXCEPT !.indexHandler = h])
       ELSE next(app, rq, [c EXCEPT !.indexHandler = h])

\* an ErrorHandler that writes the body and leaves the status as it is
ErrorHandlerNoStatus(c, err) ==
    SendString(Enter(c, "ErrorHandler"), "Error : " \o err.msg)

\* the ErrorHandler of the test app's fiber.Config
ErrorHandler(c, err) ==
    SendString([Enter(c, "ErrorHandler") EXCEPT !.status = StatusInternalServerError],
               "Error : " \o err.msg)

\* fiber.DefaultErrorHandler, which main.go's app keeps
DefaultErrorHandler(c, err) ==
    SendString([Enter(c, "ErrorHandler") EXCEPT
                   !.status = IF err.code # 0 THEN err.code
                              ELSE StatusInternalServerError],
               err.msg)

\* the response read from the context, with the error the handlers returned
Response(c, err) ==
    [status |-> c.status, body |-> c.body, disposition |-> c.disposition,
     log |-> c.log, err |-> err, stdout |-> c.stdout, fs |-> c.fs,
     indexRoute |-> c.indexRoute, indexHandler |-> c.indexHandler]

\* an error of the route chain goes to the app's error handler
Handled(got, custom) ==
    IF ~got.err.isErr THEN Response(got.c, got.err)
    ELSE IF custom THEN Response(ErrorHandler(got.c, got.err).c, got.err)
    ELSE Response(DefaultErrorHandler(got.c, got.err).c, got.err)

\* the answer to a request whose method the app does not know: the handler
\* writes it itself, no route and no error handler runs
InvalidMethod(c) ==
    Response([c EXCEPT !.status = 400, !.body = "Invalid http method"], Nil)

\* a handler that gives a request of an unknown method to the error handler
\* like a request no route matches
HandlerAnyMethod(app, rq, files, custom) ==
    IF rq.method \notin Methods
    THEN Handled(Return(NewCtx(files), ErrNotFound(rq)), custom)
    ELSE Handled(next(app, rq, NewCtx(files)), custom)

\* app.handler: the route chain, then the error handler on an error
Handler(app, rq, files, custom) ==
    IF rq.method \notin Methods THEN InvalidMethod(NewCtx(files))
    ELSE Handled(next(app, rq, NewCtx(files)), custom)

-----------------------------------------------------------------------------
(* The shared test app of fiber_test.go *)

NoRoutes == [m \in Methods |-> <<>>]

\* the working directory of the tests: ./source/contoh.txt is embedded at
\* build time, ./target may or may not have been created
FileSystems ==
    {[dirs |-> d, files |-> ("./source/contoh.txt" :> contohFile)] :
        d \in {{"./source"}, {"./source", "./target"}}}

Procs == 0..NumChildren

\* no process of the server runs
ServerOff == [p \in Procs |-> [state |-> "off", child |-> FALSE]]

\* what the test reads from the response, and the place in the stack of the
\* handler that ran last for it
Answer(got) ==
    [status |-> got.status, body |-> got.body, disposition |-> got.disposition,
     log |-> got.log, err |-> got.err,
     indexRoute |-> got.indexRoute, indexHandler |-> got.indexHandler]

\* the request is answered: the response, and the files the handlers wrote
Answered(rq, got) ==
    /\ req' = rq
    /\ resp' = Answer(got)
    /\ fs' = got.fs

\* app.Test(request): the response of the app's handler, and its effects
Test(app, rq) == Answered(rq, Handler(app, rq, fs, TRUE))

\* a test function: its registrations on the shared app, then its request
RunTest(app, rq) ==
    /\ stack' = app
    /\ runs' = runs + 1
    /\ Test(app, rq)
    /\ UNCHANGED <<input, serverVars>>

TestRouteHelloWorld ==
    RunTest(Get(stack, <<>>, "root"), Request("GET", <<>>))

TestCtx ==
    RunTest(Get(stack, <<"hello">>, "hello"), Request("GET", <<"hello">>))

OrderPattern == <<"users", ":userId", "orders", ":orderId">>

TestRouteParameter ==
    RunTest(Get(stack, OrderPattern, "order"),
            Request("GET", <<"users", "eko", "orders", "2">>))

UploadRequest(file) ==
    [Request("POST", <<"upload">>) EXCEPT !.ctype = MIMEMultipartForm, !.file = file]

TestFormUpload ==
    RunTest(Post(stack, <<"upload">>, "upload"),
            UploadRequest(FormFile("contoh.txt", contohFile)))

RegisterRequest(ctype, body) ==
    [Request("POST", <<"register">>) EXCEPT !.ctype = ctype, !.body = body]

\* registers only: the function sends no request and holds no response
TestBodyParser ==
    /\ stack' = Post(stack, <<"register">>, "register")
    /\ runs' = runs + 1
    /\ req' = NoRequest
    /\ resp' = NoResponse
    /\ UNCHANGED <<fs, input, serverVars>>

Eric == <<"E", "r", "i", "c">>
rahasia == <<"r", "a", "h", "a", "s", "i", "a">>
EricKunthady == <<"E", "r", "i", "c", " ", "K", "u", "n", "t", "h", "a", "d", "y">>

TestBodyParserJSON ==
    RunTest(Post(stack, <<"register">>, "register"),
            RegisterRequest(MIMEApplicationJSON, JsonBody(Eric, rahasia, EricKunthady)))

TestBodyParserForm ==
    RunTest(Post(stack, <<"register">>, "register"),
            RegisterRequest(MIMEApplicationForm, FormBody(Eric, rahasia, EricKunthady)))

TestDownloadFile ==
    RunTest(Get(stack, <<"download">>, "download"), Request("GET", <<"download">>))

Groups == {<<"api">>, <<"web">>}
GroupPaths == {<<"hello">>, <<"world">>}

TestRouteGroup ==
    LET api1 == GroupGet(stack, <<"api">>, <<"hello">>, "helloW")
        api2 == GroupGet(api1, <<"api">>, <<"world">>, "helloW")
        web1 == GroupGet(api2, <<"web">>, <<"hello">>, "helloW")
        web2 == GroupGet(web1, <<"web">>, <<"world">>, "helloW")
    IN RunTest(web2, Request("GET", <<"web", "hello">>))

TestStatic ==
    RunTest(Static(stack, <<"public">>), Request("GET", <<"public", "contoh.txt">>))

TestErrorHandling ==
    RunTest(Get(stack, <<"err">>, "err"), Request("GET", <<"err">>))

\* any request given to app.Test on the shared app
AppTest(rq) ==
    /\ Test(stack, rq)
    /\ UNCHANGED <<stack, runs, input, serverVars>>

HelloRequest(q) == [Request("GET", <<"hello">>) EXCEPT !.query = q]

\* requests to the paths the tests register, and to paths next to them
Requests ==
    {Request("GET", p) :
        p \in {<<>>, <<"hello">>, <<"world">>, <<"users", "eko", "orders", "2">>,
               <<"download">>, <<"err">>, <<"missing">>,
               <<"public", "contoh.txt">>, <<"public", "missing.txt">>, <<"public">>}
              \cup {g \o h : g \in Groups, h \in GroupPaths}}
    \cup {Request("POST", <<"hello">>), Request("POST", <<"upload">>),
          HelloRequest(<<<<"name", "Dion">>>>)}
    \cup {UploadRequest(f) :
            f \in {NoFile, FormFile("contoh.txt", contohFile), FormFile("a.txt", "a")}}
    \cup {RegisterRequest(MIMEApplicationJSON, JsonBody(Eric, rahasia, EricKunthady)),
          RegisterRequest(MIMEApplicationForm, FormBody(Eric, rahasia, EricKunthady)),
          RegisterRequest("", <<>>)}

\* the shared app before any test, with the generated request to send
InitWith(inputs) ==
    /\ stack = NoRoutes
    /\ fs \in FileSystems
    /\ req = NoRequest
    /\ resp = NoResponse
    /\ runs = 0
    /\ input \in inputs
    /\ procs = ServerOff
    /\ stdout = <<>>
    /\ served = 0

Init == InitWith({Input(NoRequest)})

Ready == runs < MaxRuns

Next ==
    \/ Ready /\ TestRouteHelloWorld
    \/ Ready /\ TestCtx
    \/ Ready /\ TestRouteParameter
    \/ Ready /\ TestFormUpload
    \/ Ready /\ TestBodyParser
    \/ Ready /\ TestBodyParserJSON
    \/ Ready /\ TestBodyParserForm
    \/ Ready /\ TestDownloadFile
    \/ Ready /\ TestRouteGroup
    \/ Ready /\ TestStatic
    \/ Ready /\ TestErrorHandling
    \/ \E rq \in Requests : AppTest(rq)

Spec == Init /\ [][Next]_vars

-----------------------------------------------------------------------------
(* The routes of single tests, with generated requests *)

Again == runs < MaxRepeat

SeqsUpTo(S, n) == UNION {[1..k -> S] : k \in 0..n}

\* GET /hello with every query string of a few parameters
QueryKeys == {"name", "x"}
QueryValues == {"", "Dion", "Eko", "Guest"}
Queries == SeqsUpTo({<<k, v>> : k \in QueryKeys, v \in QueryValues}, MaxQuery)

InitCtx == InitWith({Input(HelloRequest(q)) : q \in Queries})

NextCtx ==
    \/ Again /\ TestCtx
    \/ AppTest(input.rq)

SpecCtx == InitCtx /\ [][NextCtx]_vars

\* POST /register with every username of a few characters, in both encodings
Chars == {"a", " ", "&", "=", "+", "%", "\"", "\\"}
Usernames == SeqsUpTo(Chars, MaxLen)

RegisterJSON(u) == RegisterRequest(MIMEApplicationJSON, JsonBody(u, rahasia, EricKunthady))
RegisterForm(u) == RegisterRequest(MIMEApplicationForm, FormBody(u, rahasia, EricKunthady))

RegisterInputs ==
    {Encoded(RegisterJSON(u), u) : u \in Usernames}
    \cup {Encoded(RegisterForm(u), u) : u \in Usernames}
    \cup {Input(rq) :
            rq \in {RegisterRequest(MIMEApplicationJSON, FormBody(Eric, rahasia, EricKunthady)),
                    RegisterRequest(MIMEApplicationJSON, <<"{", "}">>),
                    RegisterRequest(MIMEApplicationForm, <<>>),
                    RegisterRequest("", JsonBody(Eric, rahasia, EricKunthady))}}

NextRegister ==
    \/ Again /\ TestBodyParser
    \/ Again /\ TestBodyParserJSON
    \/ Again /\ TestBodyParserForm
    \/ AppTest(input.rq)

InitRegister == InitWith(RegisterInputs)

SpecRegister == InitRegister /\ [][NextRegister]_vars

\* GET /users/u/orders/o with every pair of segments of a few characters
SegChars == {"e", "2", ":"}
Segments ==
    {Str(cs) : cs \in SeqsUpTo(SegChars, MaxLen)} \cup {"eko", "users", "orders"}

OrderRequest(u, o) == Request("GET", <<"users", u, "orders", o>>)

NextParams ==
    \/ Again /\ TestRouteParameter
    \/ AppTest(input.rq)

InitParams == InitWith({Input(OrderRequest(u, o)) : u \in Segments, o \in Segments})

SpecParams == InitParams /\ [][NextParams]_vars

-----------------------------------------------------------------------------
(* The whole suite of fiber_test.go on the shared app *)

HttpRequest ==
    [Request("GET", <<"req">>) EXCEPT !.headers = <<<<"firstname", "Eko">>>>,
                                      !.cookies = <<<<"lastname", "Soegianto">>>>]

TestHttpRequest == RunTest(Get(stack, <<"req">>, "req"), HttpRequest)

FormRequest(body) ==
    [Request("POST", <<"hi">>) EXCEPT !.ctype = MIMEApplicationForm, !.body = body]

TestFormReq ==
    RunTest(Post(stack, <<"hi">>, "hi"), FormRequest(<<"name", "=", "E", "k", "o">>))

LoginRequest(body) ==
    [Request("POST", <<"login">>) EXCEPT !.ctype = MIMEApplicationJSON, !.body = body]

\* the body strings.NewReader gets in TestRequestBody
LoginBody ==
    <<"{", "\"", "username", "\"", ":", "\"">> \o JsonEscaped(Eric)
        \o <<"\"", ",", "\"", "password", "\"", ":", "\"">> \o JsonEscaped(rahasia)
        \o <<"\"", "}">>

TestRequestBody == RunTest(Post(stack, <<"login">>, "login"), LoginRequest(LoginBody))

UserRequest ==
    [Request("GET", <<"user">>) EXCEPT !.headers = <<<<"Accept", MIMEApplicationJSON>>>>]

TestResponseJSON == RunTest(Get(stack, <<"user">>, "user"), UserRequest)

TestView == RunTest(Get(stack, <<"view">>, "view"), Request("GET", <<"view">>))

\* the working directory of the suite: with ./template/index.mustache, or
\* without it
SuiteFileSystems ==
    FileSystems
    \cup {[dirs |-> f.dirs \cup {"./template"},
           files |-> ("./template/index.mustache" :> Str(IndexTemplate)) @@ f.files] :
            f \in FileSystems}

WithHeader(rq, key, value) == [rq EXCEPT !.headers = <<<<key, value>>>>]

\* requests next to those of the tests: no route, another method, a method
\* that is none, conditional and range requests for the files, bodies that
\* cannot be decoded
SuiteRequests ==
    {Request("GET", <<"missing">>), Request("POST", <<>>), Request("BREW", <<>>),
     Request("GET", <<"view">>), Request("GET", <<"public", "missing.txt">>),
     LoginRequest(<<"{", "\"", "username", "\"">>),
     [FormRequest(<<"name", "=", "E", "k", "o">>) EXCEPT !.ctype = ""]}
    \cup {WithHeader(Request("GET", p), "If-Modified-Since", t) :
            p \in {<<"download">>, <<"public", "contoh.txt">>},
            t \in {BeforeWritten, SinceWritten}}
    \cup {WithHeader(Request("GET", p), "Range", r) :
            p \in {<<"download">>, <<"public", "contoh.txt">>},
            r \in {"bytes=0-3", "bytes=5-2"}}

InitSuite ==
    /\ stack = NoRoutes
    /\ fs \in SuiteFileSystems
    /\ req = NoRequest
    /\ resp = NoResponse
    /\ runs = 0
    /\ input = Input(NoRequest)
    /\ procs = ServerOff
    /\ stdout = <<>>
    /\ served = 0

InSuite == runs < MaxSuite

NextSuite ==
    \/ InSuite /\ TestRouteHelloWorld
    \/ InSuite /\ TestCtx
    \/ InSuite /\ TestHttpRequest
    \/ InSuite /\ TestRouteParameter
    \/ InSuite /\ TestFormReq
    \/ InSuite /\ TestFormUpload
    \/ InSuite /\ TestRequestBody
    \/ InSuite /\ TestBodyParser
    \/ InSuite /\ TestBodyParserJSON
    \/ InSuite /\ TestBodyParserForm
    \/ InSuite /\ TestResponseJSON
    \/ InSuite /\ TestDownloadFile
    \/ InSuite /\ TestRouteGroup
    \/ InSuite /\ TestStatic
    \/ InSuite /\ TestErrorHandling
    \/ InSuite /\ TestView
    \/ \E rq \in SuiteRequests : AppTest(rq)

SpecSuite == InitSuite /\ [][NextSuite]_vars

-----------------------------------------------------------------------------
(* The preforked server of main.go *)

\* the routes main registers before it listens
MainApp ==
    Get(Use(NoRoutes, Methods, <<"api">>, "middleware"), <<"api", "hello">>, "apiHello")

\* fiber.IsChild(): the process was started by a prefork parent
IsChild(p) == procs[p].child

Announcement(p) ==
    IF IsChild(p) THEN "This is child process" ELSE "This is parent process"

Line(p, text) == [proc |-> p, text |-> text]

\* the process the operating system starts runs main up to its routes
InitServer ==
    /\ stack = NoRoutes
    /\ fs \in FileSystems
    /\ req = NoRequest
    /\ resp = NoResponse
    /\ runs = 0
    /\ input = Input(NoRequest)
    /\ procs = [ServerOff EXCEPT ![0].state = "started"]
    /\ stdout = <<>>
    /\ served = 0

\* main prints the role of its process
Announce(p) ==
    /\ procs[p].state = "started"
    /\ procs' = [procs EXCEPT ![p].state = "announced"]
    /\ stdout' = Append(stdout, Line(p, Announcement(p)))
    /\ UNCHANGED <<served, testVars>>

\* app.Listen with Prefork: a child listens on the shared address, the
\* parent goes on to start the children
Listen(p) ==
    /\ procs[p].state = "announced"
    /\ procs' = [procs EXCEPT ![p].state = IF IsChild(p) THEN "listening" ELSE "prefork"]
    /\ UNCHANGED <<stdout, served, testVars>>

\* a child process started without the mark in its environment
ForkedUnmarked == [state |-> "started", child |-> FALSE]

\* the child process the parent starts, marked as a child in its environment
Forked == [state |-> "started", child |-> TRUE]

\* the parent starts its next child: the same program from the start of main
Fork(p, c) ==
    /\ procs[p].state = "prefork"
    /\ procs[c].state = "off"
    /\ \A d \in 1..(c - 1) : procs[d].state # "off"
    /\ procs' = [procs EXCEPT ![c] = Forked]
    /\ UNCHANGED <<stdout, served, testVars>>

\* app.Listen returns an error (of the listener, or of a child that ended)
\* and main panics
Panic(p) ==
    /\ \/ procs[p].state = "announced"
       \/ procs[p].state = "listening"
       \/ procs[p].state = "prefork" /\ \E c \in Procs : procs[c].state = "exited"
    /\ procs' = [procs EXCEPT ![p].state = "exited"]
    /\ UNCHANGED <<stdout, served, testVars>>

\* the lines a request's handlers printed, as lines of the process
Lines(p, printed) == [i \in 1..Len(printed) |-> Line(p, printed[i])]

\* the request is answered by the process
Replied(p, rq, got) ==
    /\ req' = rq
    /\ resp' = Answer(got)
    /\ stdout' = stdout \o Lines(p, got.stdout)

\* a listening process answers a request
Serve(p, rq) ==
    /\ procs[p].state = "listening"
    /\ served < MaxServed
    /\ served' = served + 1
    /\ Replied(p, rq, Handler(MainApp, rq, fs, FALSE))
    /\ UNCHANGED <<procs, stack, fs, runs, input>>

ServerRequests ==
    {Request(m, p) :
        m \in {"GET", "POST"},
        p \in {<<>>, <<"api">>, <<"api", "hello">>, <<"api", "world">>, <<"hello">>}}

NextServer ==
    \/ \E p \in Procs : Announce(p)
    \/ \E p \in Procs : Listen(p)
    \/ \E p \in Procs, c \in Procs \ {0} : Fork(p, c)
    \/ \E p \in Procs : Panic(p)
    \/ \E p \in Procs, rq \in ServerRequests : Serve(p, rq)

SpecServer == InitServer /\ [][NextServer]_vars

-----------------------------------------------------------------------------
(* Properties *)

\* some route of the method's stack has the handler
HasHandler(app, method, h) ==
    \E i \in 1..Len(app[method]) :
        \E j \in 1..Len(app[method][i].handlers) : app[method][i].handlers[j] = h

Positions(log, x) == {i \in 1..Len(log) : log[i] = x}

RouteHandlers ==
    {"root", "hello", "order", "upload", "register", "download", "helloW", "err",
     "static"}

\* C1: on the app with the custom ErrorHandler, a request whose route handler
\* returns an error with message m is answered with status 500 and the body
\* "Error : " followed by m.
C1_ErrorHandler ==
    (resp.err.isErr /\ \E i \in 1..Len(resp.log) : resp.log[i] \in RouteHandlers)
        => /\ resp.status = StatusInternalServerError
           /\ resp.body = "Error : " \o resp.err.msg

C1_Witness ==
    /\ req = Request("GET", <<"err">>)
    /\ resp.err = Err(0, "duar")
    /\ resp.status = 500
    /\ resp.body = "Error : duar"

BeforeLine == "This is middleware before processing request"
AfterLine == "This is middleware after processing request"

UnderApi(rq) == Len(rq.path) >= 1 /\ rq.path[1] = "api"

\* C2: for a request under /api the server's middleware prints its "before"
\* line before the downstream handler runs and its "after" line exactly once
\* after the downstream handler returned, with nil or with an error; no
\* handler under /api runs without the "before" line ahead of it.
C2_Middleware ==
    (resp # NoResponse /\ UnderApi(req))
        => /\ Cardinality(Positions(resp.log, BeforeLine)) = 1
           /\ Cardinality(Positions(resp.log, AfterLine)) = 1
           /\ \A b \in Positions(resp.log, BeforeLine) :
                \A a \in Positions(resp.log, AfterLine) :
                    /\ b < a
                    /\ \A i \in Positions(resp.log, "apiHello") : b < i /\ i < a
                    /\ \A i \in Positions(resp.log, "ErrorHandler") : a < i

C2_Witness ==
    /\ req = Request("GET", <<"api", "world">>)
    /\ resp.err.isErr
    /\ resp.log = <<"middleware", BeforeLine, AfterLine, "ErrorHandler">>

\* the lines of stdout in which process p announces a role
Announced(p) ==
    {i \in 1..Len(stdout) :
        /\ stdout[i].proc = p
        /\ stdout[i].text \in {"This is parent process", "This is child process"}}

\* C3: with prefork every started process has exactly one of the roles parent
\* and child and has announced that role before it calls Listen; exactly one
\* process is the parent and every other process is a child.
C3_Prefork ==
    /\ \A p \in Procs :
        /\ Cardinality(Announced(p)) <= 1
        /\ procs[p].state \in {"listening", "prefork", "exited"}
            => /\ Cardinality(Announced(p)) = 1
               /\ \A i \in Announced(p) : stdout[i].text = Announcement(p)
    /\ Cardinality({p \in Procs : procs[p].state # "off" /\ ~IsChild(p)}) = 1
    /\ \A p \in Procs \ {0} : procs[p].state # "off" => IsChild(p)

C3_Witness ==
    /\ procs[0].state = "prefork"
    /\ \A c \in Procs \ {0} : procs[c].state = "listening"

\* the positions of the parameters called name in the request's query
NameAt(rq) == {i \in 1..Len(rq.query) : rq.query[i][1] = "name"}

HelloAsked ==
    /\ HasHandler(stack, "GET", "hello")
    /\ req.method = "GET"
    /\ req.path = <<"hello">>

\* C4 as stated: GET /hello answers 200 with "Hello " + n for every request
\* with a query parameter name=n, and with "Hello Guest" without one.
C4_Original ==
    HelloAsked
        => /\ resp.status = StatusOK
           /\ NameAt(req) = {} => resp.body = "Hello Guest"
           /\ NameAt(req) # {}
                => resp.body = "Hello " \o req.query[Min(NameAt(req))][2]

\* C4: GET /hello answers 200 with "Hello " + n for every request whose first
\* query parameter name has a value n that is not empty, and with "Hello
\* Guest" for every request without a name parameter or with an empty one.
C4_Hello ==
    HelloAsked
        => /\ resp.status = StatusOK
           /\ (NameAt(req) = {} \/ req.query[Min(NameAt(req))][2] = "")
                => resp.body = "Hello Guest"
           /\ (NameAt(req) # {} /\ req.query[Min(NameAt(req))][2] # "")
                => resp.body = "Hello " \o req.query[Min(NameAt(req))][2]

C4_Witness ==
    /\ HelloAsked
    /\ req.query = <<<<"x", "Dion">>, <<"name", "">>>>
    /\ resp.body = "Hello Guest"

\* the request in hand is a generated POST /register for the username u, or
\* the request of TestBodyParserJSON or TestBodyParserForm for the username
RegisterFor(u) ==
    \/ input.valid /\ req = input.rq /\ u = input.data
    \/ req \in {RegisterJSON(Eric), RegisterForm(Eric)} /\ u = Eric

\* the username the request in hand was made of, if any
Registering == IF input.valid /\ req = input.rq THEN {input.data, Eric} ELSE {Eric}

\* the handlers registered for POST /register
Registrations ==
    IF stack["POST"] = <<>> THEN 0 ELSE Len(stack["POST"][1].handlers)

\* C5: POST /register answers the same for the same username in both
\* encodings: a JSON body and a url-encoded form body with username u both
\* get status 200 and the body "Register Success " + u.
C5_Encodings ==
    \A u \in Registering :
        (HasHandler(stack, "POST", "register") /\ RegisterFor(u))
            => /\ resp.status = StatusOK
               /\ resp.body = "Register Success " \o Str(u)

C5_Witness ==
    /\ req = RegisterForm(<<" ", "&">>)
    /\ resp.status = StatusOK
    /\ resp.body = "Register Success  &"

\* C6: GET /users/u/orders/o with segments u and o that are not empty answers
\* 200 with "Order " + o + " from " + u: each segment is bound to its own
\* parameter.
C6_Params ==
    ( /\ HasHandler(stack, "GET", "order")
      /\ req.method = "GET"
      /\ Len(req.path) = 4
      /\ req.path[1] = "users" /\ req.path[3] = "orders"
      /\ req.path[2] # "" /\ req.path[4] # "" )
        => /\ resp.status = StatusOK
           /\ resp.body = "Order " \o req.path[4] \o " from " \o req.path[2]

C6_Witness ==
    /\ req = OrderRequest("orders", "e:")
    /\ resp.body = "Order e: from orders"

GroupedPaths == {g \o h : g \in Groups, h \in GroupPaths}

GroupsRegistered ==
    \A p \in GroupedPaths :
        \E i \in 1..Len(stack["GET"]) :
            /\ stack["GET"][i].path = p
            /\ stack["GET"][i].handlers[1] = "helloW"

\* C7: with the groups /api and /web registered, GET on each of /api/hello,
\* /api/world, /web/hello and /web/world runs the shared handler and answers
\* 200 with "Hello World"; the shared handler is reached under the prefixes
\* of the groups only.
C7_Groups ==
    /\ (GroupsRegistered /\ req.method = "GET" /\ req.path \in GroupedPaths)
        => /\ resp.status = StatusOK
           /\ resp.body = "Hello World"
           /\ resp.log = <<"helloW">>
    /\ Positions(resp.log, "helloW") # {} => req.path \in GroupedPaths

C7_Witness ==
    /\ GroupsRegistered
    /\ req = Request("GET", <<"api", "world">>)
    /\ resp.status = StatusOK
    /\ resp.body = "Hello World"

IsUpload(rq) == rq.method = "POST" /\ rq.path = <<"upload">>

UploadPath(rq) == "./target/" \o rq.file.name

\* "Upload Success" is sent for a saved file only, and an upload that cannot
\* be read or saved is answered with the error
UploadAnswer ==
    /\ resp.body = "Upload Success"
        => /\ IsUpload(req) /\ req.file.present
           /\ UploadPath(req) \in DOMAIN fs.files
           /\ fs.files[UploadPath(req)] = req.file.content
    /\ ( /\ IsUpload(req) /\ HasHandler(stack, "POST", "upload")
         /\ \/ ~req.file.present
            \/ req.ctype # MIMEMultipartForm
            \/ "./target" \notin fs.dirs )
        => /\ resp.err.isErr
           /\ resp.body # "Upload Success"

\* C9: POST /upload answers "Upload Success" only after the file is saved
\* under ./target/ with its filename; without the field "file", or when
\* saving fails, the error is returned and "Upload Success" is not sent, and
\* without the field no file is written.
C9_Upload ==
    /\ []UploadAnswer
    /\ [][(IsUpload(req') /\ ~req'.file.present) => fs' = fs]_vars

C9_Witness ==
    /\ req = UploadRequest(FormFile("a.txt", "a"))
    /\ resp.body = "Upload Success"
    /\ fs.files["./target/a.txt"] = "a"

\* C10: after k >= 1 registrations of the POST /register handler a valid
\* request is answered exactly once, by one run of the handler, with status
\* 200 and the body "Register Success " + username.
C10_Reregister ==
    \A u \in Registering :
        (Registrations >= 1 /\ RegisterFor(u))
            => /\ resp.log = <<"register">>
               /\ resp.status = StatusOK
               /\ resp.body = "Register Success " \o Str(u)

C10_Witness ==
    /\ Registrations = 3
    /\ req = RegisterJSON(<<"a">>)
    /\ resp.log = <<"register">>
    /\ resp.body = "Register Success a"

\* a test function with a request has run in the step
TestRan == runs' = runs + 1 /\ req' # NoRequest

\* the routes the step added to the stack of one method: the handlers added
\* to the route that was last, and the routes after it
OwnRoutes(old, new) ==
    (IF Len(old) > 0 /\ Len(new[Len(old)].handlers) > Len(old[Len(old)].handlers)
     THEN <<[new[Len(old)] EXCEPT
                !.handlers = SubSeq(new[Len(old)].handlers,
                                    Len(old[Len(old)].handlers) + 1,
                                    Len(new[Len(old)].handlers))]>>
     ELSE <<>>)
        \o SubSeq(new, Len(old) + 1, Len(new))

\* an app with the registrations of the step alone
OwnApp(old, new) == [m \in Methods |-> OwnRoutes(old[m], new[m])]

\* the place i, k of the stack holds a handler the step registered
IsOwn(old, i, k) == i > Len(old) \/ (i >= 1 /\ k > Len(old[i].handlers))

\* the routes registered before the step that match the request
Earlier(old, rq) == {i \in 1..Len(old) : RouteMatch(old[i], rq.path)}

\* the test's response has the status and body of the test run alone
SameAsAlone(got, alone) == got.status = alone.status /\ got.body = alone.body

\* C11 as stated: whatever tests ran before on the shared app, each test gets
\* the status and body it gets alone, and its request is dispatched to the
\* handler that this test registered, because no route registered before
\* matches the method and path it requests.
C11_Original ==
    [][TestRan =>
        /\ SameAsAlone(resp', Handler(OwnApp(stack, stack'), req', fs, TRUE))
        /\ IsOwn(stack[req'.method], resp'.indexRoute, resp'.indexHandler)
        /\ Earlier(stack[req'.method], req') = {}]_vars

\* the route has the path, the kind and the handler function of one of the
\* routes the test registered
LikeOwn(route, own) ==
    \E j \in 1..Len(own) :
        /\ own[j].path = route.path
        /\ own[j].use = route.use
        /\ own[j].handlers[1] = route.handlers[1]

\* the request went to the first handler of the first route registered
\* before for its method and path, a handler of the same function as the
\* one the test registered for that path
FirstRegistered(old, new, rq, got) ==
    /\ got.indexRoute = Min(Earlier(old, rq))
    /\ got.indexHandler = 1
    /\ LikeOwn(old[got.indexRoute], OwnRoutes(old, new))

\* C11: whatever tests ran before on the shared app, each test gets the
\* status and body it gets alone.  Its request is dispatched to the handler
\* this test registered unless an earlier run registered a route of the same
\* method and path (POST /register of TestBodyParser, TestBodyParserJSON and
\* TestBodyParserForm, or the same test run before): then the handler
\* registered first answers.  No route of another path matches the request.
C11_Independent ==
    [][TestRan =>
        /\ SameAsAlone(resp', Handler(OwnApp(stack, stack'), req', fs, TRUE))
        /\ Earlier(stack[req'.method], req') = {}
            => IsOwn(stack[req'.method], resp'.indexRoute, resp'.indexHandler)
        /\ Earlier(stack[req'.method], req') # {}
            => FirstRegistered(stack[req'.method], stack'[req'.method], req', resp')]_vars

C11_Witness ==
    /\ runs = 2
    /\ Len(stack["POST"]) = 1
    /\ stack["POST"][1].handlers = <<"register", "register">>
    /\ req = RegisterForm(Eric)
    /\ resp.indexRoute = 1 /\ resp.indexHandler = 1
    /\ resp.status = StatusOK
    /\ resp.body = "Register Success Eric"

\* no route of the app matches the method and path of the request
Unmatched(app, rq) ==
    rq.method \in Methods
        => ~\E i \in 1..Len(app[rq.method]) : RouteMatch(app[rq.method][i], rq.path)

StartsWith(str, prefix) ==
    Len(str) >= Len(prefix) /\ SubSeq(str, 1, Len(prefix)) = prefix

\* C12 as stated: on the app with the custom ErrorHandler every response has
\* status 200 or 500 after any registrations, and a request that matches no
\* registered method and path is answered with 500 and a body starting with
\* "Error : ".
C12_Original ==
    resp # NoResponse
        => /\ resp.status \in {200, 500}
           /\ Unmatched(stack, req)
                => resp.status = 500 /\ StartsWith(resp.body, "Error : ")

FileRequest(rq) ==
    /\ rq.method \in {"GET", "HEAD"}
    /\ rq.path \in {<<"download">>, <<"public", "contoh.txt">>}

\* C12: on the app with the custom ErrorHandler every error of a handler or
\* of the router, the not-found error of a request of a known method that no
\* route matches among them, is answered with 500 and a body starting with
\* "Error : ", never with 404 or 405.  Every other response has status 200, but
\* for two cases the ErrorHandler never sees: a request whose method the
\* framework does not know gets 400, and the file routes answer conditional
\* and range requests with 304, 206 or 416.
C12_Statuses ==
    resp # NoResponse
        => /\ resp.status \in {200, 206, 304, 400, 416, 500}
           /\ resp.status = 500 <=> resp.err.isErr
           /\ resp.err.isErr => StartsWith(resp.body, "Error : ")
           /\ (req.method \in Methods /\ Unmatched(stack, req))
                => resp.err.code \in {404, 405}
           /\ resp.status = 400 <=> req.method \notin Methods
           /\ resp.status = 304
                => FileRequest(req) /\ Header(req, "If-Modified-Since") # ""
           /\ resp.status \in {206, 416}
                => req.path = <<"download">> /\ Header(req, "Range") # ""

C12_Witness ==
    /\ runs = MaxSuite
    /\ req = Request("GET", <<"missing">>)
    /\ resp.err = Err(404, "Cannot GET /missing")
    /\ resp.status = 500
    /\ resp.body = "Error : Cannot GET /missing"

=============================================================================
